---- MODULE Spec2Model ----
(***************************************************************************)
(* Model of the COLMAP-to-training-format converters                       *)
(*   batch_convert_colmap.py          (converter "batch")                  *)
(*   convert_with_separate_images.py  (converter "separate")               *)
(*                                                                         *)
(* Text files are sequences of lines.  A line is a record                  *)
(*   [kind, parts, name]                                                   *)
(* kind  : "blank", "comment" (a line that starts with "#"), "icomment"    *)
(*         (a comment whose "#" follows white space), "data", or "track"   *)
(*         (a feature track line of images.txt with two observations or    *)
(*         more, "X Y POINT3D_ID ..." with fractional X and Y)              *)
(* parts : the leading numeric tokens of a data line, as whole numbers     *)
(*         (a camera model tag is a number code)                           *)
(* name  : the token after them when it is not a number, such as the file  *)
(*         name of an images.txt metadata line (<<>> when the line has no  *)
(*         such token)                                                     *)
(* The text of a token is the sequence of its character codes, which are   *)
(* ordered as the characters are: -2 for "-", -1 for ".", 0 .. 9 for the   *)
(* digits and 10 .. 35 for the letters a .. z.                             *)
(* The track line of an image without observations is an empty line, that  *)
(* is a "blank" line.                                                      *)
(*                                                                         *)
(* Three specifications share the variables:                               *)
(*   Spec     : main, the batch loop over the discovered roots             *)
(*   SpecSeq  : one conversion, over a bounded set of reconstructions      *)
(*   SpecPose : the pose algebra, over a bounded set of rotations          *)
(***************************************************************************)
EXTENDS Integers, Sequences, FiniteSets, TLC

\* sequences per bag: the literal 10 of the batch loop
Capacity == 10

\* bounds of the model
MaxRoots == 11
MaxFaulty == 2
MaxImages == 3
MaxPointLines == 3
MaxCoord == 1
MaxDen == 3

Converters == {"batch", "separate"}

----------------------------------------------------------------------------
(* Results of operations that may raise *)

Ok(v) == [ok |-> TRUE, err |-> "", val |-> v]
Err(e) == [ok |-> FALSE, err |-> e, val |-> <<>>]

Blank == [kind |-> "blank", parts |-> <<>>, name |-> <<>>]
Comment == [kind |-> "comment", parts |-> <<>>, name |-> <<>>]
IndentedComment == [kind |-> "icomment", parts |-> <<>>, name |-> <<>>]
Track == [kind |-> "track", parts |-> <<>>, name |-> <<>>]
DataLine(p, n) == [kind |-> "data", parts |-> p, name |-> n]

----------------------------------------------------------------------------
(* Record parsers *)

\* the line has no text once stripped
NoText(l) == l.kind = "blank" \/ (l.kind = "data" /\ l.parts = <<>> /\ l.name = <<>>)

\* "line = line.strip(); if not line or line.startswith('#'): continue" of
\* the camera and point readers
Skipped(l) == NoText(l) \/ l.kind \in {"comment", "icomment"}

\* the line ends with a token that is not a number
Named(l) == l.name # <<>>

\* the exception a line of cameras.txt raises ("" when it parses): the
\* tokens are read in the order int(parts[0]), parts[1], int(parts[2]),
\* int(parts[3]), float of each further token
CameraLineError(l) ==
  IF l.kind = "track" \/ Len(l.parts) = 0 THEN "ValueError"
  ELSE IF Len(l.parts) = 1 THEN "IndexError"
  ELSE IF Named(l) THEN "ValueError"
  ELSE IF Len(l.parts) < 4 THEN "IndexError"
  ELSE ""

\* read_colmap_cameras: a repeated camera id overwrites the earlier record.
RECURSIVE ReadCamerasFrom(_, _, _)
ReadCamerasFrom(lines, i, cams) ==
  IF i > Len(lines) THEN Ok(cams)
  ELSE IF Skipped(lines[i]) THEN ReadCamerasFrom(lines, i + 1, cams)
  ELSE IF CameraLineError(lines[i]) # "" THEN Err(CameraLineError(lines[i]))
  ELSE LET p == lines[i].parts
           rec == [model |-> p[2], width |-> p[3], height |-> p[4],
                   params |-> SubSeq(p, 5, Len(p))]
       IN ReadCamerasFrom(lines, i + 1,
            [c \in (DOMAIN cams) \cup {p[1]} |-> IF c = p[1] THEN rec ELSE cams[c]])

read_colmap_cameras(lines) == ReadCamerasFrom(lines, 1, <<>>)

\* dict assignment images[k] = v: a Python dict keeps the position of the
\* first insertion of a key and the value of the last.
DictPut(items, k, v) ==
  IF \E j \in 1..Len(items) : items[j][1] = k
  THEN [j \in 1..Len(items) |-> IF items[j][1] = k THEN <<k, v>> ELSE items[j]]
  ELSE Append(items, <<k, v>>)

\* the exception a kept line of images.txt raises when it is read as a
\* metadata line ("" when it parses).  Both readers start with
\* int(parts[0]), which raises on a track line, on an indented comment and
\* on a lone name.  Then the batch reader converts parts[1] .. parts[8] in
\* order before it takes parts[9], so that it meets the name of a short
\* line (ValueError) before the end of the line; the other reader takes
\* parts[9] first (IndexError on every short line).
ImageLineError(conv, l) ==
  IF l.kind \in {"track", "icomment"} \/ Len(l.parts) = 0 THEN "ValueError"
  ELSE IF Len(l.parts) >= 10 THEN ""
  ELSE IF Len(l.parts) = 9 THEN (IF Named(l) THEN "" ELSE "IndexError")
  ELSE IF conv = "batch" /\ Named(l) THEN "ValueError"
  ELSE "IndexError"

\* the text of a whole-number token, as character codes (-2: the sign)
RECURSIVE Digits(_)
Digits(x) == IF x < 10 THEN <<x>> ELSE Digits(x \div 10) \o <<x % 10>>

TokenText(x) == IF x < 0 THEN <<-2>> \o Digits(0 - x) ELSE Digits(x)

\* the name is parts[9]: the tenth token, a number on a line with ten or
\* more numeric tokens
ImageRecord(l) ==
  [name |-> IF Len(l.parts) >= 10 THEN TokenText(l.parts[10]) ELSE l.name,
   camera_id |-> l.parts[9],
   quat |-> SubSeq(l.parts, 2, 5), trans |-> SubSeq(l.parts, 6, 8)]

\* the loop "for i in range(0, len(lines), 2)" over the kept lines
RECURSIVE ReadImagesFrom(_, _, _, _)
ReadImagesFrom(conv, kept, i, items) ==
  IF i > Len(kept) THEN Ok(items)
  ELSE IF ImageLineError(conv, kept[i]) # "" THEN Err(ImageLineError(conv, kept[i]))
  ELSE ReadImagesFrom(conv, kept, i + 2,
         DictPut(items, kept[i].parts[1], ImageRecord(kept[i])))

\* "if l.strip() and not l.startswith('#')": the comment test is made on
\* the raw line, so that an indented comment is kept
IsKept(l) == ~NoText(l) /\ l.kind # "comment"

\* read_colmap_images: the items of the resulting dict, in dict order
read_colmap_images(conv, lines) ==
  ReadImagesFrom(conv, SelectSeq(lines, IsKept), 1, <<>>)

\* the exception a line of points3D.txt raises ("" when it parses): the
\* tokens are read in the order float(parts[1]) .. float(parts[3]),
\* int(parts[4]) .. int(parts[6]); parts[0] is not read.  On a track line
\* int(parts[4]) meets the fractional coordinate of the second observation.
PointLineError(l) ==
  IF l.kind = "track" THEN "ValueError"
  ELSE IF Len(l.parts) >= 7 THEN ""
  ELSE IF Len(l.parts) >= 1 /\ Named(l) THEN "ValueError"
  ELSE "IndexError"

\* variant: each record is put in front of the list instead of behind it
RECURSIVE ReadPointsPrepending(_, _, _)
ReadPointsPrepending(lines, i, pts) ==
  IF i > Len(lines) THEN Ok(pts)
  ELSE IF Skipped(lines[i]) THEN ReadPointsPrepending(lines, i + 1, pts)
  ELSE IF PointLineError(lines[i]) # "" THEN Err(PointLineError(lines[i]))
  ELSE ReadPointsPrepending(lines, i + 1, <<SubSeq(lines[i].parts, 2, 7)>> \o pts)

\* read_colmap_points3D: one [x, y, z, r, g, b] per data line, in file order
RECURSIVE ReadPointsFrom(_, _, _)
ReadPointsFrom(lines, i, pts) ==
  IF i > Len(lines) THEN Ok(pts)
  ELSE IF Skipped(lines[i]) THEN ReadPointsFrom(lines, i + 1, pts)
  ELSE IF PointLineError(lines[i]) # "" THEN Err(PointLineError(lines[i]))
  ELSE ReadPointsFrom(lines, i + 1, Append(pts, SubSeq(lines[i].parts, 2, 7)))

read_colmap_points3D(lines) == ReadPointsFrom(lines, 1, <<>>)

----------------------------------------------------------------------------
(* Pose algebra.  A float is modelled by the real number it stands for:
   <<n, d, m>> is (n / d) * sqrt(m), with n / d in lowest terms, d > 0 and
   m >= 1 free of square factors (m = 1: a rational; zero is <<0, 1, 1>>).
   Every number the converters compute from rational inputs has this form:
   the square root is taken of a rational, and the numbers added to each
   other carry the same root.  d = 0 marks the non-finite floats:
   <<1, 0, 1>> is inf, <<-1, 0, 1>> is -inf and <<0, 0, 1>> is nan.
   Rounding is not modelled, and a zero is +0.0. *)

NaN == <<0, 0, 1>>
Inf(sign) == <<sign, 0, 1>>

Finite(a) == a[2] # 0
IsNaN(a) == a[2] = 0 /\ a[1] = 0
Sign(a) == IF a[1] > 0 THEN 1 ELSE IF a[1] < 0 THEN -1 ELSE 0

Abs(n) == IF n < 0 THEN 0 - n ELSE n

RECURSIVE GCD(_, _)
GCD(a, b) == IF b = 0 THEN a ELSE GCD(b, a % b)

\* the largest k whose square divides m
SquarePart(m) ==
  LET S == {k \in 1..m : k <= m \div k /\ m % (k * k) = 0}
  IN CHOOSE k \in S : \A j \in S : j <= k

\* (n / d) * sqrt(m) with n / d divided through by g and d made positive
Lowest(n, d, m, g) ==
  IF d < 0 THEN <<(0 - n) \div g, (0 - d) \div g, m>> ELSE <<n \div g, d \div g, m>>

\* (n / d) * sqrt(m) with the square k * k taken out of the root
RootOut(n, d, m, k) == Lowest(n * k, d, m \div (k * k), GCD(Abs(n * k), Abs(d)))

\* the normal form of (n / d) * sqrt(m), for d # 0 and m >= 0
Surd(n, d, m) ==
  IF n = 0 \/ m = 0 THEN <<0, 1, 1>> ELSE RootOut(n, d, m, SquarePart(m))

\* a real number outside the model's numbers: its evaluation fails
Unrepresentable(a) == CHOOSE x \in {} : x = a

\* the float n / d, d # 0
Rat(n, d) == Surd(n, d, 1)

\* float(n) of a whole number n
Q(n) == <<n, 1, 1>>

\* np.array of a list of whole numbers
Floats(v) == [i \in 1..Len(v) |-> Q(v[i])]

\* -a
RNeg(a) == <<0 - a[1], a[2], a[3]>>

\* a + b
RAdd(a, b) ==
  IF IsNaN(a) \/ IsNaN(b) THEN NaN
  ELSE IF ~Finite(a) THEN (IF ~Finite(b) /\ Sign(a) # Sign(b) THEN NaN ELSE a)
  ELSE IF ~Finite(b) THEN b
  ELSE IF a[1] = 0 THEN b
  ELSE IF b[1] = 0 THEN a
  ELSE IF a[3] = b[3] THEN Surd(a[1] * b[2] + b[1] * a[2], a[2] * b[2], a[3])
  ELSE Unrepresentable(<<a, b>>)

\* a - b
RSub(a, b) == RAdd(a, RNeg(b))

\* a * b (inf * 0 is nan)
RMul(a, b) ==
  IF IsNaN(a) \/ IsNaN(b) THEN NaN
  ELSE IF ~Finite(a) \/ ~Finite(b)
  THEN (IF Sign(a) * Sign(b) = 0 THEN NaN ELSE Inf(Sign(a) * Sign(b)))
  ELSE Surd(a[1] * b[1], a[2] * b[2], a[3] * b[3])

\* a / b of numpy floats: x / 0 is inf or -inf, 0 / 0 and inf / inf are
\* nan, x / inf is 0
RDiv(a, b) ==
  IF IsNaN(a) \/ IsNaN(b) THEN NaN
  ELSE IF ~Finite(a)
  THEN (IF ~Finite(b) THEN NaN
        ELSE Inf(Sign(a) * (IF Sign(b) < 0 THEN -1 ELSE 1)))
  ELSE IF ~Finite(b) THEN Q(0)
  ELSE IF b[1] = 0 THEN (IF a[1] = 0 THEN NaN ELSE Inf(Sign(a)))
  ELSE Surd(a[1] * b[2], a[2] * b[1] * b[3], a[3] * b[3])

\* a < b; every comparison with nan is false
RLess(a, b) ==
  IF IsNaN(a) \/ IsNaN(b) THEN FALSE
  ELSE IF ~Finite(a) \/ ~Finite(b)
  THEN (IF Finite(a) THEN 0 ELSE Sign(a)) < (IF Finite(b) THEN 0 ELSE Sign(b))
  ELSE IF Sign(a) # Sign(b) THEN Sign(a) < Sign(b)
  ELSE IF a[3] = b[3] THEN a[1] * b[2] < b[1] * a[2]
  ELSE LET sa == a[1] * a[1] * a[3] * b[2] * b[2]
           sb == b[1] * b[1] * b[3] * a[2] * a[2]
       IN IF Sign(a) > 0 THEN sa < sb ELSE sb < sa

\* np.sqrt: nan on a negative number; sqrt(n / d) = sqrt(n * d) / d
RSqrt(a) ==
  IF IsNaN(a) \/ Sign(a) < 0 THEN NaN
  ELSE IF ~Finite(a) THEN a
  ELSE IF a[3] = 1 THEN Surd(1, a[2], a[1] * a[2])
  ELSE Unrepresentable(a)

quaternion_to_rotation_matrix(q) ==
  LET qw == q[1] qx == q[2] qy == q[3] qz == q[4]
      Two(a, b) == RMul(Q(2), RMul(a, b))
      Diag(a, b) == RSub(RSub(Q(1), Two(a, a)), Two(b, b))
  IN << << Diag(qy, qz), RSub(Two(qx, qy), Two(qz, qw)), RAdd(Two(qx, qz), Two(qy, qw)) >>,
        << RAdd(Two(qx, qy), Two(qz, qw)), Diag(qx, qz), RSub(Two(qy, qz), Two(qx, qw)) >>,
        << RSub(Two(qx, qz), Two(qy, qw)), RAdd(Two(qy, qz), Two(qx, qw)), Diag(qx, qy) >> >>

Transpose(R) == [i \in 1..3 |-> [j \in 1..3 |-> R[j][i]]]

MatVec(R, t) ==
  [i \in 1..3 |-> RAdd(RAdd(RMul(R[i][1], t[1]), RMul(R[i][2], t[2])),
                       RMul(R[i][3], t[3]))]

NegVec(t) == [i \in 1..3 |-> RNeg(t[i])]

\* variant: the transposition of R_w2c is forgotten
InvertPoseNoTranspose(R, t) == [R |-> R, t |-> NegVec(MatVec(R, t))]

\* variant: the sign of the translation is forgotten
InvertPoseNoNegation(R, t) ==
  LET Rc == Transpose(R) IN [R |-> Rc, t |-> MatVec(Rc, t)]

\* R_c2w = R_w2c.T ; t_c2w = -R_c2w @ t_w2c
invert_pose(R, t) ==
  LET Rc == Transpose(R) IN [R |-> Rc, t |-> NegVec(MatVec(Rc, t))]

\* np.trace(R)
Trace(R) == RAdd(RAdd(R[1][1], R[2][2]), R[3][3])

\* variant: the trace formula is used for every matrix
BranchTraceOnly(R) == 1

\* the branch rotation_matrix_to_quaternion takes: 1 (trace > 0),
\* 2 (R[0,0] dominant), 3 (R[1,1] dominant), 4 (else)
Branch(R) ==
  IF RLess(Q(0), Trace(R)) THEN 1
  ELSE IF RLess(R[2][2], R[1][1]) /\ RLess(R[3][3], R[1][1]) THEN 2
  ELSE IF RLess(R[3][3], R[2][2]) THEN 3
  ELSE 4

\* the argument of np.sqrt in branch b
BranchRootArg(R, b) ==
  IF b = 1 THEN RAdd(Trace(R), Q(1))
  ELSE IF b = 2 THEN RSub(RSub(RAdd(Q(1), R[1][1]), R[2][2]), R[3][3])
  ELSE IF b = 3 THEN RSub(RSub(RAdd(Q(1), R[2][2]), R[1][1]), R[3][3])
  ELSE RSub(RSub(RAdd(Q(1), R[3][3]), R[1][1]), R[2][2])

\* the argument of np.sqrt in the branch taken
RootArg(R) == BranchRootArg(R, Branch(R))

\* the scale factor s of the branch taken
Scale(R) ==
  IF Branch(R) = 1 THEN RDiv(Rat(1, 2), RSqrt(RootArg(R)))
  ELSE RMul(Q(2), RSqrt(RootArg(R)))

\* [qw, qx, qy, qz] of branch b with scale factor s (quarter: the float 0.25)
BranchQuaternion(R, b, s, quarter) ==
  IF b = 1
  THEN << RDiv(quarter, s), RMul(RSub(R[3][2], R[2][3]), s),
          RMul(RSub(R[1][3], R[3][1]), s), RMul(RSub(R[2][1], R[1][2]), s) >>
  ELSE IF b = 2
  THEN << RDiv(RSub(R[3][2], R[2][3]), s), RMul(quarter, s),
          RDiv(RAdd(R[1][2], R[2][1]), s), RDiv(RAdd(R[1][3], R[3][1]), s) >>
  ELSE IF b = 3
  THEN << RDiv(RSub(R[1][3], R[3][1]), s), RDiv(RAdd(R[1][2], R[2][1]), s),
          RMul(quarter, s), RDiv(RAdd(R[2][3], R[3][2]), s) >>
  ELSE << RDiv(RSub(R[2][1], R[1][2]), s), RDiv(RAdd(R[1][3], R[3][1]), s),
          RDiv(RAdd(R[2][3], R[3][2]), s), RMul(quarter, s) >>

\* variant: the off-diagonal differences are taken with the opposite sign
\* (the quaternion of the transposed matrix)
QuaternionOfTranspose(R) ==
  BranchQuaternion(Transpose(R), Branch(R), Scale(R), Rat(1, 4))

\* rotation_matrix_to_quaternion: [qw, qx, qy, qz] of the branch taken
rotation_matrix_to_quaternion(R) == BranchQuaternion(R, Branch(R), Scale(R), Rat(1, 4))

----------------------------------------------------------------------------
(* Sequence assembler and point cloud exporter *)

\* str < str of Python: lexicographic on the character codes
RECURSIVE StrLess(_, _)
StrLess(a, b) ==
  IF b = <<>> THEN FALSE
  ELSE IF a = <<>> THEN TRUE
  ELSE IF Head(a) # Head(b) THEN Head(a) < Head(b)
  ELSE StrLess(Tail(a), Tail(b))

\* variant: names ordered as numbers (shorter digit strings first)
InsertByNumber(s, x) ==
  LET Less(a, b) == Len(a) < Len(b) \/ (Len(a) = Len(b) /\ StrLess(a, b))
      n == Cardinality({j \in 1..Len(s) : ~Less(x[2].name, s[j][2].name)})
  IN SubSeq(s, 1, n) \o <<x>> \o SubSeq(s, n + 1, Len(s))

\* x goes behind every element whose name is not greater (sorted is stable)
InsertByName(s, x) ==
  LET n == Cardinality({j \in 1..Len(s) : ~StrLess(x[2].name, s[j][2].name)})
  IN SubSeq(s, 1, n) \o <<x>> \o SubSeq(s, n + 1, Len(s))

RECURSIVE SortFrom(_, _, _)
SortFrom(items, i, acc) ==
  IF i > Len(items) THEN acc
  ELSE SortFrom(items, i + 1, InsertByName(acc, items[i]))

\* sorted(images.items(), key=lambda x: x[1]['name'])
SortedByName(items) == SortFrom(items, 1, <<>>)

\* '%.6f' / ':.6f' of a whole number, in units of 10^-6
Fmt6(x) == x * 1000000

\* the files of a sequence directory: <<directory or file, index>>; the
\* single files have index -1
ImageFile(idx) == <<"image_0", idx>>
IntrinsicFile(idx) == <<"camera_intrinsics_per_view", idx>>
IntrinsicsFile == <<"camera_intrinsics_per_view", -1>>
MotionFile == <<"motion.yaml", -1>>
PlyFile == <<"structure.ply", -1>>

\* os.symlink guarded by "if not dst_image.exists()" creates a file only
\* when none is there; every other write replaces the file.
Link(f) == [file |-> f, mode |-> "ifabsent"]
Write(f) == [file |-> f, mode |-> "overwrite"]

EmptyAcc ==
  [err |-> "", writes |-> <<>>, intrinsic_files |-> <<>>,
   intrinsics_list |-> <<>>, poses |-> <<>>, found |-> 0, missing |-> <<>>]

\* one iteration of the loop of convert_colmap_to_training_format
\* (called by main with copy_images=False)
BatchEntry(acc, idx, e, cameras, recon) ==
  LET linked == IF e.name \in recon.present
                THEN Append(acc.writes, Link(ImageFile(idx)))
                ELSE acc.writes
      warned == IF e.name \in recon.present
                THEN acc.missing ELSE Append(acc.missing, e.name)
      a1 == [acc EXCEPT !.writes = linked, !.missing = warned]
  IN IF e.camera_id \notin DOMAIN cameras THEN [a1 EXCEPT !.err = "KeyError"]
     ELSE IF Len(cameras[e.camera_id].params) < 4 THEN [a1 EXCEPT !.err = "IndexError"]
     ELSE LET p == cameras[e.camera_id].params
              pose == invert_pose(quaternion_to_rotation_matrix(Floats(e.quat)),
                                  Floats(e.trans))
          IN [a1 EXCEPT
                !.writes = Append(linked, Write(IntrinsicFile(idx))),
                !.intrinsic_files = Append(@,
                    [idx |-> idx, fx |-> Fmt6(p[1]), fy |-> Fmt6(p[2]),
                     cx |-> Fmt6(p[3]), cy |-> Fmt6(p[4])]),
                !.poses = Append(@, [key |-> idx, position |-> pose.t,
                                     orientation |-> pose.R])]

\* one iteration of the loop of convert_sequence
SeparateEntry(acc, idx, e, cameras, recon) ==
  IF e.name \notin recon.present \/ e.name \notin recon.readable
  THEN [acc EXCEPT !.missing = Append(@, e.name)]
  ELSE LET a1 == [acc EXCEPT !.writes = Append(@, Write(ImageFile(idx))),
                             !.found = @ + 1]
       IN IF e.camera_id \notin DOMAIN cameras THEN [a1 EXCEPT !.err = "KeyError"]
          ELSE IF Len(cameras[e.camera_id].params) < 4 THEN [a1 EXCEPT !.err = "ValueError"]
          ELSE LET p == cameras[e.camera_id].params
                   pose == invert_pose(quaternion_to_rotation_matrix(Floats(e.quat)),
                                  Floats(e.trans))
               IN [a1 EXCEPT
                     !.intrinsics_list = @ \o <<Fmt6(p[1]), Fmt6(p[2]), Fmt6(p[3]), Fmt6(p[4])>>,
                     !.poses = Append(@, [key |-> idx, position |-> pose.t,
                          orientation |-> rotation_matrix_to_quaternion(pose.R)])]

Entry(conv, acc, idx, e, cameras, recon) ==
  IF conv = "batch" THEN BatchEntry(acc, idx, e, cameras, recon)
  ELSE SeparateEntry(acc, idx, e, cameras, recon)

\* "for idx, (img_id, img_data) in enumerate(sorted_images)": the loop ends
\* at the first entry that raises
RECURSIVE EntryLoop(_, _, _, _, _, _)
EntryLoop(conv, acc, k, sorted, cameras, recon) ==
  IF k > Len(sorted) \/ acc.err # "" THEN acc
  ELSE EntryLoop(conv, Entry(conv, acc, k - 1, sorted[k][2], cameras, recon),
                 k + 1, sorted, cameras, recon)

\* the structure.ply written by both converters
ExportPly(points) ==
  [count |-> Len(points),
   vertices |-> [k \in 1..Len(points) |->
      <<Fmt6(points[k][1]), Fmt6(points[k][2]), Fmt6(points[k][3]),
        points[k][4], points[k][5], points[k][6]>>]]

NoPly == [count |-> -1, vertices |-> <<>>]

\* what a conversion that raised leaves behind: the files written so far
Raised(e, acc, sorted) ==
  [ok |-> FALSE, err |-> e, nimg |-> 0, npts |-> 0, writes |-> acc.writes,
   intrinsic_files |-> acc.intrinsic_files, intrinsics_list |-> <<>>,
   poses |-> <<>>, ply |-> NoPly, missing |-> acc.missing, sorted |-> sorted]

\* variant: the check for zero resolved images is missing
NoImagesNeverChecked(conv, acc) == FALSE

\* "if found == 0: raise ValueError" of convert_sequence; the batch
\* converter has no such check
NoImagesResolved(conv, acc) == conv = "separate" /\ acc.found = 0

\* convert_colmap_to_training_format(sparse_dir, output_dir, copy_images=False)
\* and convert_sequence(sparse_dir, output_dir, image_source_dir) on the
\* reconstruction recon
Convert(conv, recon) ==
  LET cams == read_colmap_cameras(recon.cameras)
      imgs == read_colmap_images(conv, recon.images)
      pts == read_colmap_points3D(recon.points)
  IN IF ~cams.ok THEN Raised(cams.err, EmptyAcc, <<>>)
     ELSE IF ~imgs.ok THEN Raised(imgs.err, EmptyAcc, <<>>)
     ELSE IF ~pts.ok THEN Raised(pts.err, EmptyAcc, <<>>)
     ELSE LET sorted == SortedByName(imgs.val)
              acc == EntryLoop(conv, EmptyAcc, 1, sorted, cams.val, recon)
          IN IF acc.err # "" THEN Raised(acc.err, acc, sorted)
             ELSE IF NoImagesResolved(conv, acc) THEN Raised("ValueError", acc, sorted)
             ELSE [ok |-> TRUE, err |-> "",
                   nimg |-> IF conv = "batch" THEN Len(sorted) ELSE acc.found,
                   npts |-> Len(pts.val),
                   writes |-> acc.writes \o
                      (IF conv = "batch" THEN <<>> ELSE <<Write(IntrinsicsFile)>>)
                      \o <<Write(MotionFile), Write(PlyFile)>>,
                   intrinsic_files |-> acc.intrinsic_files,
                   intrinsics_list |-> acc.intrinsics_list,
                   poses |-> acc.poses,
                   ply |-> ExportPly(pts.val),
                   missing |-> acc.missing,
                   sorted |-> sorted]

----------------------------------------------------------------------------
(* Inputs *)

IdentityQuat == <<1, 0, 0, 0>>

CamLine(id, params) == DataLine(<<id, 1, 640, 480>> \o params, <<>>)
ImgLine(id, quat, trans, cam, name) == DataLine(<<id>> \o quat \o trans \o <<cam>>, name)
PtLine(id, xyz, rgb) == DataLine(<<id>> \o xyz \o rgb \o <<0>>, <<>>)

\* the text ".png"
Png == <<-1, 25, 23, 16>>

\* the file name made of the digits d and the extension ".png"
PngName(d) == d \o Png

\* the image file names "1.png", "10.png" and "9.png": "10.png" sorts
\* before "9.png" as a string and after it as a number
Names == {PngName(<<1>>), PngName(<<1, 0>>), PngName(<<9>>)}

CamerasTxt == <<Comment, IndentedComment, CamLine(1, <<500, 500, 320, 240>>), Blank>>

TwoImagesTxt(cam1, cam2) ==
  <<Comment,
    ImgLine(1, IdentityQuat, <<1, 2, 3>>, cam1, PngName(<<9>>)), Track,
    ImgLine(2, <<0, 1, 0, 0>>, <<4, 5, 6>>, cam2, PngName(<<1, 0>>)), Track>>

PointsTxt == <<Comment, PtLine(7, <<1, 2, 3>>, <<255, 0, 9>>)>>

\* the reconstructions the batch loop meets
Catalog == {"good", "partial", "noimages", "unreadable", "unknowncam", "malformed"}

Recon(c) ==
  [cameras |-> IF c = "malformed" THEN <<DataLine(<<1, 1>>, <<>>)>> ELSE CamerasTxt,
   images |-> IF c = "unknowncam" THEN TwoImagesTxt(2, 1) ELSE TwoImagesTxt(1, 1),
   points |-> PointsTxt,
   present |-> IF c = "noimages" THEN {}
               ELSE IF c = "partial" THEN {PngName(<<9>>)}
               ELSE {PngName(<<9>>), PngName(<<1, 0>>)},
   readable |-> IF c \in {"noimages", "unreadable"} THEN {}
                ELSE IF c = "partial" THEN {PngName(<<9>>)}
                ELSE {PngName(<<9>>), PngName(<<1, 0>>)}]

----------------------------------------------------------------------------
(* The batch loop of main *)

VARIABLES converter, nroots, pos, pc, bag_idx, seq_idx, success, failed,
          log, slots, inputs, fs, recon, out, dataset, missing, exit_code, alg

vars == <<converter, nroots, pos, pc, bag_idx, seq_idx, success, failed,
          log, slots, inputs, fs, recon, out, dataset, missing, exit_code, alg>>

\* the root paths main tests with exists() before it scans
RequiredRoots(conv) ==
  IF conv = "batch" THEN {"dataset_root"} ELSE {"colmap_root", "image_root"}

\* what the converter does on each reconstruction the dataset may hold: a
\* function of the files of the reconstruction alone, fixed for the run
Conversions(conv) == [c \in Catalog |-> Convert(conv, Recon(c))]

\* convert_colmap_to_training_format / convert_sequence on the root c
ConvertRoot(c) == dataset[c]

LogLine(k, r, b, s, ni, np, e) ==
  [kind |-> k, root |-> r, bag |-> b, seq |-> s, nimg |-> ni, npts |-> np, err |-> e]

HeaderLine == LogLine("header", -1, -1, -1, -1, -1, "")
BlankLine == LogLine("blank", -1, -1, -1, -1, -1, "")

\* the lines written before the loop
LogHeader == <<HeaderLine, HeaderLine, HeaderLine, BlankLine>>

\* variant: the except clause logs the error message without the path
FailureLineWithoutPath(root, e) == LogLine("fail", -1, -1, -1, -1, -1, e)

SuccessLine(root, bag, seq, r) == LogLine("ok", root, bag, seq, r.nimg, r.npts, "")
FailureLine(root, e) == LogLine("fail", root, -1, -1, -1, -1, e)

\* variant: the log is reopened with mode 'w' for every line
LogRewrite(l, line) == <<line>>

\* log.write / f.write on the handle opened once with mode 'w'
LogWrite(l, line) == Append(l, line)

\* variant: the wrap test is "seq_idx > 10"
NextSlotOffByOne(bag, seq) ==
  IF seq + 1 > Capacity THEN <<bag + 1, 0>> ELSE <<bag, seq + 1>>

\* variant: the bag advances on every success once the first bag is full
NextSlotNoReset(bag, seq) ==
  IF seq + 1 >= Capacity THEN <<bag + 1, seq>> ELSE <<bag, seq + 1>>

\* "seq_idx += 1; if seq_idx >= 10: seq_idx = 0; bag_idx += 1"
NextSlot(bag, seq) ==
  IF seq + 1 >= Capacity THEN <<bag + 1, 0>> ELSE <<bag, seq + 1>>

\* the files of the directory of slot after root owner performed the
\* writes ws (each conversion writes a file at most once)
ApplyWrites(files, slot, ws, owner) ==
  LET here == {t.file : t \in {u \in files : u.slot = slot}}
      made == {ws[k].file : k \in {j \in 1..Len(ws) :
                 ws[j].mode = "overwrite" \/ ws[j].file \notin here}}
  IN {t \in files : ~(t.slot = slot /\ t.file \in made)}
       \cup {[slot |-> slot, file |-> f, owner |-> owner] : f \in made}

NoOut == Raised("", EmptyAcc, <<>>)
NoRecon == [cameras |-> <<>>, images |-> <<>>, points |-> <<>>,
            present |-> {}, readable |-> {}]

Faulty == Cardinality({i \in 1..Len(inputs) : inputs[i] # "good"})

\* the pose algebra is at rest in the batch loop
NoAlg == [R0 |-> <<>>, t0 |-> <<>>, R |-> <<>>, t |-> <<>>, n |-> 0,
          q |-> <<>>, s |-> NaN, Rq |-> <<>>]

\* variant: an empty scan is not tested
NothingDiscoveredUntested(n) == FALSE

\* "if not sparse_dirs"
NothingDiscovered(n) == n = 0

\* main once the argument count was accepted; missing holds the required
\* root paths that do not exist (nothing can be discovered under a missing
\* root); exit_code is -1 while the process runs
Init ==
  /\ converter \in Converters
  /\ missing \in SUBSET RequiredRoots(converter)
  /\ nroots \in (IF missing = {} THEN 0..MaxRoots ELSE {0})
  /\ exit_code = -1
  /\ alg = NoAlg
  /\ pos = 0
  /\ pc = "start"
  /\ bag_idx = 0 /\ seq_idx = 0 /\ success = 0 /\ failed = 0
  /\ log = <<>> /\ slots = <<>> /\ inputs = <<>> /\ fs = {}
  /\ recon = NoRecon /\ out = NoOut
  /\ dataset = Conversions(converter)

\* main up to the loop: sys.exit(1) when a required root does not exist or
\* nothing is discovered, else the log is opened and its header written
Discover ==
  /\ pc = "start"
  /\ IF missing # {} \/ NothingDiscovered(nroots)
     THEN pc' = "exit1" /\ exit_code' = 1 /\ log' = log
     ELSE pc' = "loop" /\ exit_code' = exit_code /\ log' = LogHeader
  /\ UNCHANGED <<converter, nroots, pos, bag_idx, seq_idx, success, failed,
                 slots, inputs, fs, recon, out, dataset, missing, alg>>

\* one iteration of "for sparse_dir in tqdm(sparse_dirs)": try/except
\* around the conversion of the root at position pos
ConvertNext ==
  /\ pc = "loop"
  /\ pos < nroots
  /\ \E c \in Catalog :
       /\ c = "good" \/ Faulty < MaxFaulty
       /\ LET slot == <<bag_idx, seq_idx>>
              r == ConvertRoot(c)
          IN /\ inputs' = Append(inputs, c)
             /\ slots' = Append(slots, slot)
             /\ fs' = ApplyWrites(fs, slot, r.writes, pos)
             /\ IF r.ok
                THEN /\ log' = LogWrite(log, SuccessLine(pos, bag_idx, seq_idx, r))
                     /\ success' = success + 1
                     /\ failed' = failed
                     /\ bag_idx' = NextSlot(bag_idx, seq_idx)[1]
                     /\ seq_idx' = NextSlot(bag_idx, seq_idx)[2]
                ELSE /\ log' = LogWrite(log, FailureLine(pos, r.err))
                     /\ failed' = failed + 1
                     /\ UNCHANGED <<success, bag_idx, seq_idx>>
  /\ pos' = pos + 1
  /\ UNCHANGED <<converter, nroots, pc, recon, out, dataset, missing,
                 exit_code, alg>>

\* the loop is over: the log is closed, the summary printed and main
\* returns (exit code 0)
Summary ==
  /\ pc = "loop"
  /\ pos = nroots
  /\ pc' = "done"
  /\ exit_code' = 0
  /\ UNCHANGED <<converter, nroots, pos, bag_idx, seq_idx, success, failed,
                 log, slots, inputs, fs, recon, out, dataset, missing, alg>>

Next == Discover \/ ConvertNext \/ Summary

Spec == Init /\ [][Next]_vars

----------------------------------------------------------------------------
(* One conversion on its own, over a bounded set of reconstructions *)

AxisQuats == <<IdentityQuat, <<0, 1, 0, 0>>, <<0, 0, 1, 0>>, <<0, 0, 0, 1>>>>

IdSchemes == {"asc", "desc", "dup"}

\* the image id of the k-th of n records: ascending, descending, or the
\* first two records sharing an id
IdOf(scheme, k, n) ==
  IF scheme = "asc" THEN k
  ELSE IF scheme = "desc" THEN n + 1 - k
  ELSE (k + 1) \div 2

RECURSIVE ImageLines(_, _, _, _)
ImageLines(names, scheme, bad, k) ==
  IF k > Len(names) THEN <<>>
  ELSE <<ImgLine(IdOf(scheme, k, Len(names)), AxisQuats[((k - 1) % 4) + 1],
                 <<k, 0, 2 * k>>, IF k = bad THEN 2 ELSE 1, names[k]),
         Track>> \o ImageLines(names, scheme, bad, k + 1)

\* images.txt with the records named names in file order; the record at
\* position bad (0: none) references camera 2, which cameras.txt lacks
ImagesTxt(names, scheme, bad) == <<Comment>> \o ImageLines(names, scheme, bad, 1)

NameSeqs == UNION {[1..n -> Names] : n \in 0..MaxImages}

FileStatus == [Names -> {"ok", "unreadable", "missing"}]

ImageVariants ==
  {[cameras |-> CamerasTxt,
    images |-> ImagesTxt(v[1], v[2], v[3]),
    points |-> IF Len(v[1]) = 1 THEN <<>> ELSE PointsTxt,
    present |-> {n \in Names : v[4][n] # "missing"},
    readable |-> {n \in Names : v[4][n] = "ok"}] :
   v \in {w \in NameSeqs \X IdSchemes \X (0..MaxImages) \X FileStatus :
            w[3] <= Len(w[1])}}

PointLineKinds ==
  {Blank, Comment, IndentedComment, Track, PtLine(1, <<1, 2, 3>>, <<255, 0, 9>>),
   PtLine(2, <<-4, 0, 7>>, <<0, 128, 1>>), DataLine(<<3, 1, 2>>, <<>>)}

PointFiles == UNION {[1..n -> PointLineKinds] : n \in 0..MaxPointLines}

PointVariants ==
  {[cameras |-> CamerasTxt, images |-> TwoImagesTxt(1, 1), points |-> pf,
    present |-> {PngName(<<9>>), PngName(<<1, 0>>)},
    readable |-> {PngName(<<9>>), PngName(<<1, 0>>)}] :
   pf \in PointFiles}

RecordNames == <<PngName(<<9>>), PngName(<<1, 0>>), PngName(<<1>>), PngName(<<9, 0>>)>>

\* the records k..n of images.txt; the track line of a record is Track, or
\* empty (Blank) for an image without observations; the lines sep (none, a
\* blank line, a comment or an indented comment) go between the records
RECURSIVE RecordLines(_, _, _, _)
RecordLines(n, tracks, sep, k) ==
  IF k > n THEN <<>>
  ELSE <<ImgLine(k, AxisQuats[((k - 1) % 4) + 1], <<k, 0, 2 * k>>, 1,
                 RecordNames[((k - 1) % 4) + 1]),
         tracks[k]>>
       \o (IF k < n THEN sep ELSE <<>>) \o RecordLines(n, tracks, sep, k + 1)

TrackVariants ==
  {[cameras |-> CamerasTxt,
    images |-> <<Comment>> \o RecordLines(Len(v[1]), v[1], v[2], 1),
    points |-> PointsTxt,
    present |-> {RecordNames[k] : k \in 1..4},
    readable |-> {RecordNames[k] : k \in 1..4}] :
   v \in (UNION {[1..n -> {Track, Blank}] : n \in 1..MaxImages})
           \X {<<>>, <<Blank>>, <<Comment>>, <<IndentedComment>>}}

\* a metadata line whose name token is the number num (ten numeric tokens)
NumberNamed(id, num) == DataLine(<<id, 0, 1, 0, 0, 4, 5, 6, 1, num>>, <<>>)

\* images.txt with a record named "9.png" and a record whose name is a
\* number, in both orders: "9" sorts before "9.png" and "90" after it
NumericNameVariants ==
  {[cameras |-> CamerasTxt,
    images |->
      IF v[2]
      THEN <<ImgLine(1, IdentityQuat, <<1, 2, 3>>, 1, PngName(<<9>>)), Track,
             NumberNamed(2, v[1]), Track>>
      ELSE <<NumberNamed(2, v[1]), Track,
             ImgLine(1, IdentityQuat, <<1, 2, 3>>, 1, PngName(<<9>>)), Track>>,
    points |-> PointsTxt,
    present |-> {PngName(<<9>>), TokenText(v[1])},
    readable |-> {PngName(<<9>>), TokenText(v[1])}] :
   v \in {9, 90, -9} \X BOOLEAN}

ReconInputs ==
  ImageVariants \cup PointVariants \cup TrackVariants \cup NumericNameVariants

InitSeq ==
  /\ converter \in Converters
  /\ recon \in ReconInputs
  /\ out = NoOut
  /\ pc = "seq_start"
  /\ nroots = 0 /\ pos = 0
  /\ bag_idx = 0 /\ seq_idx = 0 /\ success = 0 /\ failed = 0
  /\ log = <<>> /\ slots = <<>> /\ inputs = <<>> /\ fs = {}
  /\ dataset = <<>>
  /\ missing = {} /\ exit_code = -1 /\ alg = NoAlg

\* convert_colmap_to_training_format / convert_sequence applied to recon
ConvertOne ==
  /\ pc = "seq_start"
  /\ out' = Convert(converter, recon)
  /\ pc' = "seq_done"
  /\ UNCHANGED <<converter, nroots, pos, bag_idx, seq_idx, success, failed,
                 log, slots, inputs, fs, recon, dataset, missing, exit_code, alg>>

NextSeq == ConvertOne

SpecSeq == InitSeq /\ [][NextSeq]_vars

----------------------------------------------------------------------------
(* The pose algebra on its own, over a bounded set of rotations *)

Permutations3 == {p \in [1..3 -> 1..3] : \A i, j \in 1..3 : i # j => p[i] # p[j]}

Det3(M) ==
  M[1][1] * (M[2][2] * M[3][3] - M[2][3] * M[3][2])
  - M[1][2] * (M[2][1] * M[3][3] - M[2][3] * M[3][1])
  + M[1][3] * (M[2][1] * M[3][2] - M[2][2] * M[3][1])

\* the signed permutation matrices with determinant 1: the 24 rotations
\* that map the coordinate axes onto each other
SignedPermutations ==
  {M \in {[i \in 1..3 |-> [j \in 1..3 |-> IF j = v[1][i] THEN v[2][i] ELSE 0]] :
            v \in Permutations3 \X [1..3 -> {-1, 1}]} : Det3(M) = 1}

FloatMatrix(M) == [i \in 1..3 |-> [j \in 1..3 |-> Q(M[i][j])]]

\* the unit quaternions with rational components of denominator up to MaxDen
UnitQuaternions ==
  UNION {{<<Rat(v[1], n), Rat(v[2], n), Rat(v[3], n), Rat(v[4], n)>> :
            v \in {w \in (0 - n..n) \X (0 - n..n) \X (0 - n..n) \X (0 - n..n) :
                     w[1]*w[1] + w[2]*w[2] + w[3]*w[3] + w[4]*w[4] = n * n}} :
         n \in 1..MaxDen}

\* the world-to-camera rotations an image record may carry
Rotations ==
  {FloatMatrix(M) : M \in SignedPermutations}
    \cup {quaternion_to_rotation_matrix(q) : q \in UnitQuaternions}

Translations == {Floats(v) : v \in [1..3 -> (0 - MaxCoord)..MaxCoord]}

InitPose ==
  /\ converter \in Converters
  /\ \E R \in Rotations, t \in Translations :
       alg = [R0 |-> R, t0 |-> t, R |-> R, t |-> t, n |-> 0,
              q |-> <<>>, s |-> NaN, Rq |-> <<>>]
  /\ pc = "pose"
  /\ recon = NoRecon /\ out = NoOut
  /\ nroots = 0 /\ pos = 0
  /\ bag_idx = 0 /\ seq_idx = 0 /\ success = 0 /\ failed = 0
  /\ log = <<>> /\ slots = <<>> /\ inputs = <<>> /\ fs = {}
  /\ dataset = <<>>
  /\ missing = {} /\ exit_code = -1

\* "R_c2w = R_w2c.T; t_c2w = -R_c2w @ t_w2c" applied to the current pose
InvertPose ==
  /\ pc = "pose"
  /\ alg.n < 2
  /\ alg.q = <<>>
  /\ LET p == invert_pose(alg.R, alg.t)
     IN alg' = [alg EXCEPT !.R = p.R, !.t = p.t, !.n = @ + 1]
  /\ UNCHANGED <<converter, nroots, pos, pc, bag_idx, seq_idx, success, failed,
                 log, slots, inputs, fs, recon, out, dataset, missing, exit_code>>

\* "quat_c2w = rotation_matrix_to_quaternion(R_c2w)" of convert_sequence
ToQuaternion ==
  /\ pc = "pose"
  /\ converter = "separate"
  /\ alg.n = 1
  /\ alg.q = <<>>
  /\ alg' = [alg EXCEPT !.q = rotation_matrix_to_quaternion(alg.R),
                        !.s = Scale(alg.R)]
  /\ UNCHANGED <<converter, nroots, pos, pc, bag_idx, seq_idx, success, failed,
                 log, slots, inputs, fs, recon, out, dataset, missing, exit_code>>

\* quaternion_to_rotation_matrix applied to the quaternion written
FromQuaternion ==
  /\ pc = "pose"
  /\ alg.q # <<>>
  /\ alg.Rq = <<>>
  /\ alg' = [alg EXCEPT !.Rq = quaternion_to_rotation_matrix(alg.q)]
  /\ UNCHANGED <<converter, nroots, pos, pc, bag_idx, seq_idx, success, failed,
                 log, slots, inputs, fs, recon, out, dataset, missing, exit_code>>

NextPose == InvertPose \/ ToQuaternion \/ FromQuaternion

SpecPose == InitPose /\ [][NextPose]_vars

----------------------------------------------------------------------------
(* Properties of the batch loop (Spec) *)

\* the per-item lines of the log
ItemLines == SubSeq(log, Len(LogHeader) + 1, Len(log))

\* the slot of the i-th discovered root (discovery index i - 1)
ExpectedSlot(i) == <<(i - 1) \div Capacity, (i - 1) % Capacity>>

Succeeds(i) == ConvertRoot(inputs[i]).ok

AllSucceeded == \A i \in 1..Len(inputs) : Succeeds(i)

IsPrefix(a, b) == Len(a) <= Len(b) /\ SubSeq(b, 1, Len(a)) = a

CountLines(k) == Cardinality({i \in 1..Len(log) : log[i].kind = k})

\* C1: the slot counter advances after every discovered root, failed or
\* not: the root at discovery index i gets slot (i div 10, i mod 10) and no
\* two roots get the same slot.
C1_SlotAdvancesOnEveryRoot ==
  /\ \A i \in 1..Len(slots) : slots[i] = ExpectedSlot(i)
  /\ \A i, j \in 1..Len(slots) : i # j => slots[i] # slots[j]

\* C2: when every conversion so far succeeded, the root at discovery index
\* i was given slot (i div 10, i mod 10), and its success line names the
\* directory bag_<i div 10>/sequence_<i mod 10>.
C2_SlotDeterminism ==
  AllSucceeded =>
    \A i \in 1..Len(slots) :
      /\ slots[i] = ExpectedSlot(i)
      /\ <<ItemLines[i].bag, ItemLines[i].seq>> = ExpectedSlot(i)

C2_Witness ==
  /\ pc = "done" /\ AllSucceeded
  /\ Len(slots) > Capacity
  /\ slots[Capacity + 1] = <<1, 0>>

\* C3: a failing conversion never aborts the batch: during the loop there
\* is one log line per attempted root, and at the end every one of the
\* nroots roots was attempted once, in discovery order, the i-th line
\* referring to the i-th root, a failure line exactly when its conversion
\* raised.
C3_FailureIsolation ==
  /\ pc \in {"loop", "done"} =>
       /\ Len(inputs) = pos /\ Len(ItemLines) = pos
       /\ \A i \in 1..pos :
            /\ ItemLines[i].root = i - 1
            /\ ItemLines[i].kind = IF Succeeds(i) THEN "ok" ELSE "fail"
  /\ pc = "done" => pos = nroots

C3_Witness ==
  /\ pc = "done" /\ nroots >= 3
  /\ ~Succeeds(2) /\ ItemLines[2].kind = "fail" /\ ItemLines[2].root = 1
  /\ \A i \in 1..nroots : i # 2 => ItemLines[i].kind = "ok"
  /\ success = nroots - 1 /\ failed = 1

\* C4: the log only grows (every step leaves the lines written so far in
\* place), success + failed is the number of roots processed, the counters
\* equal the numbers of success and failure lines, and at the end
\* success + failed = nroots.
C4_LogAppendOnly ==
  /\ [](/\ success + failed = pos
        /\ CountLines("ok") = success
        /\ CountLines("fail") = failed
        /\ pc = "done" => success + failed = nroots)
  /\ [][IsPrefix(log, log')]_vars

C4_Witness ==
  /\ pc = "done" /\ success >= 2 /\ failed >= 2
  /\ CountLines("ok") = success /\ CountLines("fail") = failed

\* C5: sequence_index stays in [0, 10), bag_index never decreases, and it
\* grows by exactly 1 exactly at the steps where sequence_index wraps from
\* 9 to 0.
C5_SlotCounter ==
  /\ [](seq_idx \in 0..(Capacity - 1))
  /\ [][/\ bag_idx' \in {bag_idx, bag_idx + 1}
        /\ bag_idx' = bag_idx + 1 <=> (seq_idx = Capacity - 1 /\ seq_idx' = 0)]_vars

C5_Witness ==
  /\ bag_idx = 1 /\ seq_idx = 0
  /\ Len(slots) >= Capacity /\ slots[Len(slots)] = <<0, Capacity - 1>>

\* the roots of the catalog that parse and have no readable image
ZeroResolved ==
  {c \in Catalog :
     /\ read_colmap_cameras(Recon(c).cameras).ok
     /\ read_colmap_images(converter, Recon(c).images).ok
     /\ read_colmap_points3D(Recon(c).points).ok
     /\ Recon(c).present \cap Recon(c).readable = {}}

\* C9: with convert_sequence, a root none of whose images is resolved
\* fails as a whole: the step that processes it writes no intrinsics file,
\* no motion.yaml and no structure.ply, appends a failure line for it (no
\* success line), and leaves the loop running at the next root.
C9_NoImagesIsHardFailure ==
  [][(/\ converter = "separate"
      /\ Len(inputs') = Len(inputs) + 1
      /\ inputs'[Len(inputs')] \in ZeroResolved)
     => /\ \A t \in fs' \ fs : t.file \notin {IntrinsicsFile, MotionFile, PlyFile}
        /\ log' = Append(log, FailureLine(pos, "ValueError"))
        /\ failed' = failed + 1 /\ success' = success
        /\ pc' = "loop" /\ pos' = pos + 1]_vars

C9_Witness ==
  /\ converter = "separate" /\ pc = "done" /\ nroots >= 3
  /\ inputs[1] = "noimages" /\ inputs[2] = "unreadable"
  /\ ItemLines[1].kind = "fail" /\ ItemLines[2].kind = "fail"
  /\ ItemLines[3].kind = "ok"

----------------------------------------------------------------------------
(* Properties of one conversion (SpecSeq) *)

ParsedOk ==
  /\ read_colmap_cameras(recon.cameras).ok
  /\ read_colmap_images(converter, recon.images).ok
  /\ read_colmap_points3D(recon.points).ok

\* the parsed ImagePose records, in input order
Parsed == read_colmap_images(converter, recon.images).val

Cams == read_colmap_cameras(recon.cameras).val

DistinctNames ==
  \A i, j \in 1..Len(Parsed) : i # j => Parsed[i][2].name # Parsed[j][2].name

\* a < b in the lexicographic order of the raw strings: a is a proper
\* prefix of b, or they first differ at a position where a is smaller
LexBefore(a, b) ==
  \/ Len(a) < Len(b) /\ \A i \in 1..Len(a) : a[i] = b[i]
  \/ \E i \in 1..Len(a) :
       /\ i <= Len(b)
       /\ a[i] < b[i]
       /\ \A j \in 1..(i - 1) : a[j] = b[j]

\* the number of parsed records whose name is smaller than that of record j
Rank(j) ==
  Cardinality({m \in 1..Len(Parsed) : LexBefore(Parsed[m][2].name, Parsed[j][2].name)})

\* C6: for records with pairwise distinct names, whatever their input
\* order and ids, the assembler enumerates them so that the record with
\* the k-th smallest name has index k, over the indices 0..N-1.
C6_IndexBySortedName ==
  (pc = "seq_done" /\ ParsedOk /\ DistinctNames) =>
    /\ Len(out.sorted) = Len(Parsed)
    /\ \A j \in 1..Len(Parsed) : out.sorted[Rank(j) + 1] = Parsed[j]

C6_Witness ==
  /\ pc = "seq_done" /\ ParsedOk /\ DistinctNames
  /\ Len(Parsed) = 3
  /\ Parsed[1][1] = 3 /\ Parsed[1][2].name = PngName(<<9>>)
  /\ Parsed[2][2].name = PngName(<<1>>) /\ Parsed[3][2].name = PngName(<<1, 0>>)
  /\ out.sorted = <<Parsed[2], Parsed[3], Parsed[1]>>

Resolved(k) ==
  /\ out.sorted[k][2].name \in recon.present
  /\ out.sorted[k][2].name \in recon.readable

KnownCamera(k) == out.sorted[k][2].camera_id \in DOMAIN Cams

Written(f) == \E i \in 1..Len(out.writes) : out.writes[i].file = f

HasPose(idx) == \E i \in 1..Len(out.poses) : out.poses[i].key = idx

\* the number of serialized intrinsics records: per-index files, or groups
\* of four values of the concatenated file
IntrinsicsRecords == Len(out.intrinsic_files) + (Len(out.intrinsics_list) \div 4)

\* C7: an entry whose camera id is missing from the camera collection is
\* skipped alone: the conversion still completes, writes the pose file and
\* the point cloud, and every other resolved entry has its pose.
C7_UnknownCameraSkipsEntry ==
  (/\ pc = "seq_done" /\ ParsedOk
   /\ \E k \in 1..Len(Parsed) : ~KnownCamera(k)
   /\ \E k \in 1..Len(Parsed) : KnownCamera(k) /\ Resolved(k))
  => /\ out.ok
     /\ Written(MotionFile) /\ Written(PlyFile)
     /\ \A k \in 1..Len(Parsed) : (KnownCamera(k) /\ Resolved(k)) => HasPose(k - 1)

\* C8: an entry whose source image is not found is skipped without
\* aborting: it gets no image file, no intrinsics record and no pose, every
\* resolved entry gets all three, and there is one intrinsics record per
\* resolved image.  (Stated for reconstructions whose cameras are all
\* known and whose present images are all readable.)
C8_UnresolvedEntrySkipped ==
  (/\ pc = "seq_done" /\ ParsedOk
   /\ recon.present = recon.readable
   /\ \A k \in 1..Len(Parsed) : KnownCamera(k)
   /\ \E k \in 1..Len(Parsed) : Resolved(k))
  => /\ out.ok
     /\ \A k \in 1..Len(Parsed) :
          /\ Written(ImageFile(k - 1)) <=> Resolved(k)
          /\ HasPose(k - 1) <=> Resolved(k)
     /\ IntrinsicsRecords = Cardinality({k \in 1..Len(Parsed) : Resolved(k)})

IsData(l) == l.kind = "data"

\* the point records of the file, in file order
PointData == SelectSeq(recon.points, IsData)

\* C10: the point cloud has exactly the parsed points in parse order: the
\* vertex count of the header, the number of vertex lines and the
\* reported point count all equal the number of point records, the k-th
\* vertex line is the k-th record, and a file with no record gives a
\* zero-vertex cloud without error.
C10_PlyMatchesParsedPoints ==
  /\ (pc = "seq_done" /\ out.ok) =>
       /\ out.ply.count = Len(PointData)
       /\ Len(out.ply.vertices) = Len(PointData)
       /\ out.npts = Len(PointData)
       /\ \A k \in 1..Len(PointData) :
            out.ply.vertices[k] =
              <<1000000 * PointData[k].parts[2], 1000000 * PointData[k].parts[3],
                1000000 * PointData[k].parts[4], PointData[k].parts[5],
                PointData[k].parts[6], PointData[k].parts[7]>>
  /\ (/\ pc = "seq_done"
      /\ \A i \in 1..Len(recon.points) : Skipped(recon.points[i])
      /\ recon.images = TwoImagesTxt(1, 1)
      /\ recon.readable = {PngName(<<9>>), PngName(<<1, 0>>)})
     => out.ok /\ out.ply = [count |-> 0, vertices |-> <<>>]

C10_Witness ==
  /\ pc = "seq_done" /\ out.ok
  /\ Len(recon.points) = 3 /\ recon.points[2] = Comment
  /\ out.ply.count = 2
  /\ out.ply.vertices = <<<<-4000000, 0, 7000000, 0, 128, 1>>,
                          <<1000000, 2000000, 3000000, 255, 0, 9>>>>

----------------------------------------------------------------------------
(* Properties of the pose algebra (SpecPose) *)

IsInteger(M) == \A i, j \in 1..3 : M[i][j][2] = 1 /\ M[i][j][3] = 1
ZeroVec == <<Q(0), Q(0), Q(0)>>

\* C11: pose inversion is self-inverse: once the inversion (R' = transpose
\* of R, t' = -R'.t) has been applied twice to a rotation R and a
\* translation t, the pose is (R, t) again.
C11_InversionSelfInverse ==
  alg.n = 2 => alg.R = alg.R0 /\ alg.t = alg.t0

\* an integer rotation that is not its own transpose, a non-zero translation
C11_Witness ==
  /\ alg.n = 2
  /\ IsInteger(alg.R0)
  /\ Transpose(alg.R0) # alg.R0
  /\ alg.t0 # ZeroVec

\* the 4x4 matrix [R t; 0 0 0 1]
Homogeneous(R, t) ==
  [i \in 1..4 |-> [j \in 1..4 |->
     IF i <= 3 /\ j <= 3 THEN R[i][j]
     ELSE IF i <= 3 THEN t[i]
     ELSE IF j = 4 THEN Q(1) ELSE Q(0)]]

MatMul4(A, B) ==
  [i \in 1..4 |-> [j \in 1..4 |->
     RAdd(RAdd(RMul(A[i][1], B[1][j]), RMul(A[i][2], B[2][j])),
          RAdd(RMul(A[i][3], B[3][j]), RMul(A[i][4], B[4][j])))]]

Identity4 == [i \in 1..4 |-> [j \in 1..4 |-> IF i = j THEN Q(1) ELSE Q(0)]]

\* the rows of R are unit vectors orthogonal to each other
Orthonormal(R) ==
  \A i, j \in 1..3 :
    RAdd(RAdd(RMul(R[i][1], R[j][1]), RMul(R[i][2], R[j][2])),
         RMul(R[i][3], R[j][3])) = (IF i = j THEN Q(1) ELSE Q(0))

\* C12: the camera-to-world pose is the exact inverse of the world-to-camera
\* transform: [R_c2w t_c2w; 0 0 0 1] composed with [R_w2c t_w2c; 0 0 0 1] is
\* the identity for every orthonormal R_w2c and every t_w2c, and the
\* identity quaternion with zero translation gives the identity pose.
C12_PoseIsExactInverse ==
  /\ (alg.n = 1 /\ Orthonormal(alg.R0)) =>
       MatMul4(Homogeneous(alg.R, alg.t), Homogeneous(alg.R0, alg.t0)) = Identity4
  /\ (alg.n = 1 /\ alg.t0 = ZeroVec
        /\ alg.R0 = quaternion_to_rotation_matrix(Floats(IdentityQuat))) =>
       Homogeneous(alg.R, alg.t) = Identity4

\* a rotation with fractional entries and a non-zero translation, inverted
C12_Witness ==
  /\ alg.n = 1
  /\ Orthonormal(alg.R0)
  /\ ~IsInteger(alg.R0)
  /\ alg.t0 # ZeroVec
  /\ alg.t # alg.t0

Tolerance == Rat(1, 1000000)

RAbs(a) == <<Abs(a[1]), a[2], a[3]>>

\* every entry of A is finite and within the tolerance of the entry of B
Close(A, B) ==
  \A i, j \in 1..3 :
    /\ A[i][j][2] # 0
    /\ ~RLess(Tolerance, RAbs(RSub(A[i][j], B[i][j])))

\* C13: quaternion round trip: for a proper rotation matrix R,
\* quaternion_to_rotation_matrix(rotation_matrix_to_quaternion(R)) equals R
\* within 1e-6, in each of the four branches of rotation_matrix_to_quaternion.
C13_QuaternionRoundTrip ==
  (alg.Rq # <<>> /\ Orthonormal(alg.R)) => Close(alg.Rq, alg.R)

\* a round trip through the branch of a dominant R[1,1] with an irrational
\* square root (a half turn about a face diagonal), every branch being
\* taken by some rotation of the model
C13_Witness ==
  /\ alg.Rq # <<>>
  /\ Orthonormal(alg.R)
  /\ Branch(alg.R) = 3
  /\ RootArg(alg.R) = Q(2)
  /\ {Branch(R) : R \in Rotations} = 1..4

\* C16: rotation_matrix_to_quaternion never divides by zero on a proper
\* rotation matrix: the branch selected by trace > 0, R[0,0] dominant,
\* R[1,1] dominant, else, takes the square root of a strictly positive
\* number, so its scale factor s is finite and non-zero (half turns with
\* trace -1 and tied diagonal entries included).
C16_NoDivisionByZero ==
  (alg.q # <<>> /\ Orthonormal(alg.R)) =>
    /\ RLess(Q(0), RootArg(alg.R))
    /\ alg.s[2] # 0
    /\ alg.s[1] # 0
    /\ \A k \in 1..4 : alg.q[k][2] # 0

\* a half turn (trace -1) whose first two diagonal entries are tied
C16_Witness ==
  /\ alg.q # <<>>
  /\ Orthonormal(alg.R)
  /\ Trace(alg.R) = Q(-1)
  /\ alg.R[1][1] = alg.R[2][2]
  /\ alg.R[3][3] = Q(-1)

----------------------------------------------------------------------------
(* More properties of the batch loop (Spec) *)

\* C14: main exits with code 1 when a required root path does not exist or
\* when no sparse/0 root is discovered, and then converts nothing and
\* writes no log; otherwise it runs to completion with exit code 0 however
\* many reconstructions failed, all of them included.
C14_ExitCodes ==
  /\ (pc # "start" /\ (missing # {} \/ nroots = 0)) =>
       /\ pc = "exit1" /\ exit_code = 1
       /\ inputs = <<>> /\ fs = {} /\ log = <<>>
  /\ (pc # "start" /\ missing = {} /\ nroots > 0) =>
       /\ exit_code # 1
       /\ pc \in {"loop", "done"}
       /\ (pc = "loop") = (exit_code = -1)
       /\ pc = "loop" => ENABLED Next
       /\ pc = "done" =>
            exit_code = 0 /\ Len(inputs) = nroots /\ success + failed = nroots

\* a run in which every reconstruction failed ends with exit code 0
C14_Witness ==
  /\ pc = "done"
  /\ exit_code = 0
  /\ nroots = MaxFaulty
  /\ failed = nroots
  /\ success = 0

\* C17: every slot directory holds only files of a single reconstruction
\* root: no file left by one root (the partial output of a failed root
\* included) is in the directory a success line reports for another root.
C17_SlotHoldsOneRoot ==
  /\ \A t, u \in fs : t.slot = u.slot => t.owner = u.owner
  /\ \A i \in 1..Len(ItemLines) :
       ItemLines[i].kind = "ok" =>
         \A t \in fs :
           t.slot = <<ItemLines[i].bag, ItemLines[i].seq>> =>
             t.owner = ItemLines[i].root

\* the image files the conversion of the i-th root placed in image_0
ImagesPlaced(i) ==
  LET ws == ConvertRoot(inputs[i]).writes
  IN Cardinality({k \in 1..Len(ws) : ws[k].file[1] = "image_0"})

\* C18: the image count of a success line equals the number of image files
\* the conversion placed in image_0, also for a reconstruction with source
\* images that could not be resolved.
C18_LoggedImageCount ==
  \A i \in 1..Len(ItemLines) :
    ItemLines[i].kind = "ok" => ItemLines[i].nimg = ImagesPlaced(i)

----------------------------------------------------------------------------
(* More properties of one conversion (SpecSeq) *)

IsComment(l) == l.kind = "comment"
NotComment(l) == ~IsComment(l)

\* the metadata lines of images.txt, in file order
MetaLines == SelectSeq(recon.images, IsData)

\* images.txt is made of records: every metadata line is complete and is
\* followed by its track line (possibly empty), every track line follows
\* its metadata line, and the ids of the records are distinct
RecordFile ==
  LET nc == SelectSeq(recon.images, NotComment)
  IN /\ \A i \in 1..Len(nc) :
          /\ nc[i].kind \in {"data", "track", "blank"}
          /\ nc[i].kind = "data" =>
               /\ Len(nc[i].parts) = 9 /\ nc[i].name # <<>>
               /\ i < Len(nc) /\ nc[i + 1].kind \in {"track", "blank"}
          /\ nc[i].kind = "track" => i > 1 /\ nc[i - 1].kind = "data"
     /\ \A i, j \in 1..Len(MetaLines) :
          i # j => MetaLines[i].parts[1] # MetaLines[j].parts[1]

\* C15: read_colmap_images returns exactly one ImagePose per record: for a
\* file of N records (metadata line, then its track line, which may be
\* empty), with blank and comment lines interspersed, the result holds
\* exactly the N ids with the name, camera id, quaternion and translation
\* of their metadata lines; no track line is parsed as a metadata line.
C15_OnePosePerRecord ==
  (/\ pc = "seq_done" /\ RecordFile
   /\ read_colmap_cameras(recon.cameras).ok
   /\ read_colmap_points3D(recon.points).ok) =>
    LET r == read_colmap_images(converter, recon.images)
    IN /\ r.ok
       /\ Len(r.val) = Len(MetaLines)
       /\ \A k \in 1..Len(MetaLines) :
            \E j \in 1..Len(r.val) :
              /\ r.val[j][1] = MetaLines[k].parts[1]
              /\ r.val[j][2].name = MetaLines[k].name
              /\ r.val[j][2].camera_id = MetaLines[k].parts[9]
              /\ r.val[j][2].quat = SubSeq(MetaLines[k].parts, 2, 5)
              /\ r.val[j][2].trans = SubSeq(MetaLines[k].parts, 6, 8)
       /\ Len(out.sorted) = Len(MetaLines)

\* the k-th (counted from 0) group of four values of the concatenated
\* camera_intrinsics_per_view file
IntrinsicsGroup(k) == SubSeq(out.intrinsics_list, 4 * k + 1, 4 * k + 4)

\* (fx, fy, cx, cy) of the camera of the k-th sorted entry, as written
IntrinsicsOf(k) ==
  LET p == Cams[out.sorted[k][2].camera_id].params
  IN <<Fmt6(p[1]), Fmt6(p[2]), Fmt6(p[3]), Fmt6(p[4])>>

\* C19: the outputs of convert_sequence are index-aligned: after a
\* successful conversion, every written image file of index k has the pose
\* entry poses[k], and the k-th group of four values of
\* camera_intrinsics_per_view is the (fx, fy, cx, cy) of that image, also
\* when entries were skipped as unresolved.
C19_OutputsIndexAligned ==
  (pc = "seq_done" /\ converter = "separate" /\ out.ok) =>
    \A k \in 1..Len(out.sorted) :
      Written(ImageFile(k - 1)) =>
        /\ HasPose(k - 1)
        /\ Len(out.intrinsics_list) >= 4 * k
        /\ IntrinsicsGroup(k - 1) = IntrinsicsOf(k)

====
